---- MODULE Spec2Model ----
(***************************************************************************)
(* THALOS PRIME: the project-signature engine, the dependency resolver and *)
(* the content-addressed cache, modelled from src/thalos_utils.py and      *)
(* src/thalos_core.py.                                                     *)
(*                                                                         *)
(* Three subsystems share this module, each with its own specifications:   *)
(*   SpecCache     SmartCache, one action per public method                *)
(*   SpecHistory   the same, with the history of dependency names kept     *)
(*   SpecCrash     SmartCache, one action per file-system step, with a     *)
(*                 process stop possible between any two steps             *)
(*   SpecPaired    the statement-level set with stops, each value stored   *)
(*                 with one dependency list                                *)
(*   SpecDamage    SmartCache, one action per method, with files lost or   *)
(*                 overwritten with non-JSON from outside                  *)
(*   SpecCorrupt   the same, and files that parse but have the wrong shape *)
(*   SpecThreads   SmartCache, one action per file-system step, in two     *)
(*                 threads that never work on the same key at once         *)
(*   SpecCycles    detect_cycles on every graph of three packages          *)
(*   SpecResolver  DependencyResolver, one action per call/return of the   *)
(*                 recursive visit functions (SpecResolverLive: a method   *)
(*                 that was called keeps running)                          *)
(*   SpecBuild     IntelligentAnalyzer / BuildOrchestrator / ThalosCore    *)
(*                                                                         *)
(* Modelling assumptions, stated once:                                     *)
(*  - cache keys are valid file-name stems, so "<key>.cache" can be        *)
(*    created in the cache directory;                                      *)
(*  - the 'timestamp' field of an index entry (time.time()) is written but *)
(*    never read by any method, and is left out of the entry;              *)
(*  - sha256 truncated to 16 hex digits is modelled as an injective        *)
(*    function of the hashed content (collisions are neglected);           *)
(*  - the interpreter's recursion limit is scaled down to the size of the  *)
(*    graphs: a resolver method is called with room for RecursionLimit     *)
(*    nested visit calls, or for two fewer;                                *)
(*  - a process stop inside write_text leaves a truncated file, which for  *)
(*    the values and indexes written here is never a JSON document.        *)
(***************************************************************************)
EXTENDS Integers, Sequences, FiniteSets, TLC

\* ------------------------------------------------------------------------
\* Bounds of the model
\* ------------------------------------------------------------------------

\* longest dependency list passed to SmartCache.set
MaxDeps == 1

\* the cache keys of a run: three for the method-level specification, two
\* where every file-system step or the history of the calls is followed
Keys == {"a", "b", "c"}

SmallKeys == {"a", "b"}

VARIABLES
  universe,     \* the keys the callers of this run use
  tracking,     \* whether everSet is kept in this run
  indexFile,    \* cache_dir/cache_index.json
  cacheFiles,   \* cache_dir/<key>.cache, for the keys whose file exists
  last,         \* the last completed SmartCache call and what it returned
  everSet,      \* history: per key, the names it was ever set with
  pc,           \* where the running SmartCache call stands ("idle": none);
                \* in SpecThreads, the same per thread
  loc           \* the local variables of the running SmartCache call; in
                \* SpecThreads, the same per thread

cacheVars == <<universe, tracking, indexFile, cacheFiles, last, everSet, pc, loc>>

\* most entries in all the dependency lists of a DependencyResolver graph
MaxEdges == 3

\* most nested visit calls the interpreter has room for when a resolver
\* method is called (RecursionError beyond)
RecursionLimit == 5

\* the packages and dependency names handed to add_dependency
Nodes == {"A", "B", "C"}

VARIABLES
  graphKeys,    \* dependency_graph: its keys, in insertion order
  graphDeps,    \* dependency_graph: key -> depends_on list
  rpc,          \* "idle", or the resolver method running / returned
  stack,        \* the active visit calls, innermost last
  outer,        \* position of the method's own for loop over the graph
  visited,      \* visited
  result,       \* get_build_order's result
  rec_stack,    \* detect_cycles' rec_stack
  cycles,       \* detect_cycles' cycles
  steps,        \* calls and returns made by the running method
  frames        \* frames the interpreter had left when the method was called

resolverVars ==
  <<graphKeys, graphDeps, rpc, stack, outer, visited, result, rec_stack, cycles,
    steps, frames>>

\* build_cache.json is written at most this often in a run (each write
\* hashes the one before: the digests are numbers that grow)
MaxSaves == 2

\* the tracked files of the project, relative to its root, and the contents
\* they take
UserPaths == {"a.txt", "b.txt"}

\* the one the user edits, removes and puts back in a run
EditedPaths == {"b.txt"}

Contents == {1, 2}

\* cache_dir / 'build_cache.json', relative to the project root
CachePath == ".thalos_cache/build_cache.json"

VARIABLES
  projectFiles,   \* the user's files under the root: path -> content
  buildCacheFile, \* .thalos_cache/build_cache.json
  languages,      \* the languages _detect_languages finds in the project
  context,        \* the ProjectContext of the BuildOrchestrator last made
  lastBuild,      \* what the last orchestrate_build did and returned
  recorded,       \* history: what save_build_cache last recorded, if intact
  untouched,      \* history: no file was changed from outside since the last
                  \* successful analyze_and_build
  saves           \* history: writes of build_cache.json so far

buildVars ==
  <<projectFiles, buildCacheFile, languages, context, lastBuild, recorded,
    untouched, saves>>

vars == <<cacheVars, resolverVars, buildVars>>

\* ------------------------------------------------------------------------
\* Python values and their JSON encoding (json.dumps / json.loads)
\* ------------------------------------------------------------------------

PyNone == [type |-> "NoneType", body |-> "-"]

\* The values handed to set: two JSON-native ones (a str, a list), a tuple
\* (json.dumps writes it as an array) and a set (json.dumps raises
\* TypeError).
PyValues ==
  { [type |-> "str", body |-> "s"],
    [type |-> "list", body |-> "x"],
    [type |-> "tuple", body |-> "x"],
    [type |-> "set", body |-> "x"] }

\* json.dumps(value) raises TypeError
DumpsRaises(value) == value.type = "set"

\* json.dumps(value): the text written
json_dumps(value) ==
  CASE value.type = "str" -> [kind |-> "string", body |-> value.body]
    [] value.type = "list" -> [kind |-> "array", body |-> value.body]
    [] value.type = "tuple" -> [kind |-> "array", body |-> value.body]
    [] OTHER -> [kind |-> "null", body |-> "-"]

\* json.loads(text) raises (the text is no JSON document)
LoadsRaises(text) == text.kind = "garbage"

\* json.loads(text): the value read
json_loads(text) ==
  CASE text.kind = "string" -> [type |-> "str", body |-> text.body]
    [] text.kind = "array" -> [type |-> "list", body |-> text.body]
    [] OTHER -> PyNone

\* ------------------------------------------------------------------------
\* SmartCache: the files
\* ------------------------------------------------------------------------

EmptyDict == [k \in {} |-> PyNone]

IndexMissing == [exists |-> FALSE, kind |-> "none", entries |-> EmptyDict]

Rank(k) == CASE k = "a" -> 1 [] k = "b" -> 2 [] OTHER -> 3

\* The dependency lists handed to set: at most MaxDeps names.  Only
\* membership in the list is ever read (invalidate_dependent), so one list
\* per set of names is drawn, the one in increasing order.
DepLists(K) ==
  { d \in UNION { [1..n -> K] : n \in 0..MaxDeps } :
      \A i, j \in 1..Len(d) : i < j => Rank(d[i]) < Rank(d[j]) }

InList(x, list) == \E i \in 1..Len(list) : list[i] = x

Names(list) == { list[i] : i \in 1..Len(list) }

DictSet(d, k, e) == [x \in (DOMAIN d) \cup {k} |-> IF x = k THEN e ELSE d[x]]

DictDel(d, k) == [x \in (DOMAIN d) \ {k} |-> d[x]]

\* SmartCache._load_index: the parsed index, {} when the file is missing
\* or json.loads raises
load_index(idxFile) ==
  IF idxFile.exists /\ idxFile.kind = "object" THEN idxFile.entries ELSE EmptyDict

\* SmartCache._save_index: index_file.write_text(json.dumps(index))
save_index(index) == [exists |-> TRUE, kind |-> "object", entries |-> index]

\* What _load_index returns is whatever JSON document the file holds: a
\* dict when set or invalidate wrote it (and {} when it is missing or no
\* JSON), a list or a number when the file was replaced by such a document.
index_type(idxFile) ==
  CASE idxFile.exists /\ idxFile.kind = "array" -> "list"
    [] idxFile.exists /\ idxFile.kind = "number" -> "int"
    [] OTHER -> "dict"

\* the 'file' of an index entry that has no such field
NoFile == "-"

\* an index entry with none of its fields: {}
StrippedEntry == [dependencies |-> <<>>, file |-> NoFile]

\* the index entry set() builds for key
NewEntry(key, dependencies) == [dependencies |-> dependencies, file |-> key]

\* the try block of SmartCache.get: "ok", or the exception raised in it
get_read(files, key) ==
  IF key \notin DOMAIN files THEN "FileNotFoundError"
  ELSE IF LoadsRaises(files[key]) THEN "JSONDecodeError"
  ELSE "ok"

get_call_unguarded(idxFile, files, key) ==
  IF key \in DOMAIN load_index(idxFile)
    THEN IF get_read(files, key) = "ok"
           THEN [raised |-> FALSE, value |-> json_loads(files[key])]
           ELSE [raised |-> TRUE, value |-> PyNone]
    ELSE [raised |-> FALSE, value |-> PyNone]

\* SmartCache.get: whether an exception leaves the call, and the value
\* returned when none does
get_call(idxFile, files, key) ==
  IF index_type(idxFile) = "int"
    THEN [raised |-> TRUE, value |-> PyNone]
  ELSE IF key \in DOMAIN load_index(idxFile) /\ key \in DOMAIN files
    THEN IF get_read(files, key) = "ok"
           THEN [raised |-> FALSE, value |-> json_loads(files[key])]
           ELSE [raised |-> FALSE, value |-> PyNone]
    ELSE [raised |-> FALSE, value |-> PyNone]

get_result(idxFile, files, key) == get_call(idxFile, files, key).value

\* the files after SmartCache.set(key, value, dependencies) returned
set_files(files, key, value) == DictSet(files, key, json_dumps(value))

set_index_stale(idxFile, key, dependencies) ==
  LET index == load_index(idxFile)
  IN  IF key \in DOMAIN index THEN save_index(index)
      ELSE save_index(DictSet(index, key, NewEntry(key, dependencies)))

set_index(idxFile, key, dependencies) ==
  save_index(DictSet(load_index(idxFile), key, NewEntry(key, dependencies)))

\* set raises at index[key] = {...}: the index is no dict (TypeError)
set_raises(idxFile) == index_type(idxFile) # "dict"

\* invalidate raises: key in index on a number (TypeError), or
\* index[key]['file'] on an entry without the field (KeyError)
invalidate_raises(idxFile, key) ==
  \/ index_type(idxFile) = "int"
  \/ /\ index_type(idxFile) = "dict"
     /\ key \in DOMAIN load_index(idxFile)
     /\ load_index(idxFile)[key].file = NoFile

\* invalidate_dependent raises at index.items(): the index is no dict
\* (AttributeError)
invalidate_dependent_raises(idxFile) == index_type(idxFile) # "dict"

\* the files after SmartCache.invalidate(key) returned
invalidate_files(idxFile, files, key) ==
  LET index == load_index(idxFile)
  IN  IF key \in DOMAIN index THEN DictDel(files, index[key].file) ELSE files

invalidate_index_emptied(idxFile, key) ==
  LET index == load_index(idxFile)
  IN  IF key \in DOMAIN index THEN save_index(EmptyDict) ELSE idxFile

invalidate_index(idxFile, key) ==
  LET index == load_index(idxFile)
  IN  IF key \in DOMAIN index THEN save_index(DictDel(index, key)) ELSE idxFile

to_invalidate_self(idxFile, dependency) ==
  LET index == load_index(idxFile)
  IN  { k \in DOMAIN index :
          k = dependency \/ InList(dependency, index[k].dependencies) }

RECURSIVE Reach(_, _, _)
Reach(index, found, n) ==
  IF n = 0 THEN found
  ELSE Reach(index,
             found \cup { k \in DOMAIN index :
                            \E f \in found : InList(f, index[k].dependencies) },
             n - 1)

to_invalidate_transitive(idxFile, dependency) ==
  LET index == load_index(idxFile)
  IN  Reach(index, {dependency}, Cardinality(DOMAIN index)) \ {dependency}

\* the keys invalidate_dependent collects in to_invalidate
to_invalidate(idxFile, dependency) ==
  LET index == load_index(idxFile)
  IN  { k \in DOMAIN index : InList(dependency, index[k].dependencies) }

\* invalidate(key) for every key of todo, one after the other.  Each call
\* touches only its own key's entry and file, so the order of the calls
\* does not show in the files left.
RECURSIVE invalidate_all(_, _, _)
invalidate_all(idxFile, files, todo) ==
  IF todo = {} THEN [indexFile |-> idxFile, cacheFiles |-> files]
  ELSE LET k == CHOOSE x \in todo : TRUE
       IN  invalidate_all(invalidate_index(idxFile, k),
                          invalidate_files(idxFile, files, k),
                          todo \ {k})

\* What the last call was.  For set: existed tells whether key had an
\* index entry before.  For crash: key and existed are those of the call
\* the process stopped in, and follows is the step it stopped before
\* ("torn" when it stopped inside a write_text).  For get: op is
\* "get_raised" when an exception left the call; follows is "set" when
\* the call right before was a completed set of the same key, and the
\* follows of the crash when it was a crash in a call on the same key;
\* value, existed are then those of that call.  For invalidate_dependent:
\* removed is the to_invalidate list.
Returned(op, key, value, dependencies, existed, follows, removed, returned) ==
  [op |-> op, key |-> key, value |-> value, dependencies |-> dependencies,
   existed |-> existed, follows |-> follows, removed |-> removed,
   result |-> returned]

\* ------------------------------------------------------------------------
\* SmartCache: one action per public method
\* ------------------------------------------------------------------------

InitFiles ==
  /\ indexFile = IndexMissing
  /\ cacheFiles = EmptyDict
  /\ last = Returned("init", "-", PyNone, <<>>, FALSE, "-", {}, PyNone)
  /\ pc = "idle"
  /\ loc = <<>>

InitResolver ==
  /\ graphKeys = <<>>
  /\ graphDeps = [n \in {} |-> <<>>]
  /\ rpc = "idle"
  /\ stack = <<>>
  /\ outer = 1
  /\ visited = {}
  /\ result = <<>>
  /\ rec_stack = {}
  /\ cycles = <<>>
  /\ steps = 0
  /\ frames = RecursionLimit

NoSignatures == [x \in {} |-> 0]

NoBuildCache == [exists |-> FALSE, kind |-> "none", signatures |-> NoSignatures]

NoContext == [file_signatures |-> NoSignatures, optimization_hints |-> {}]

NoBuild == [success |-> FALSE, cached |-> FALSE, ran |-> 0, valid |-> FALSE]

NotRecorded == [intact |-> FALSE, signatures |-> NoSignatures]

InitBuildIdle ==
  /\ projectFiles = NoSignatures
  /\ buildCacheFile = NoBuildCache
  /\ languages = {}
  /\ context = NoContext
  /\ lastBuild = NoBuild
  /\ recorded = NotRecorded
  /\ untouched = FALSE
  /\ saves = 0

InitCache ==
  /\ InitResolver
  /\ InitBuildIdle
  /\ universe = Keys
  /\ tracking = FALSE
  /\ everSet = [k \in Keys |-> {}]
  /\ InitFiles

InitHistory ==
  /\ InitResolver
  /\ InitBuildIdle
  /\ universe = SmallKeys
  /\ tracking = TRUE
  /\ everSet = [k \in SmallKeys |-> {}]
  /\ InitFiles

\* SmartCache.set; json.dumps raising leaves both files as they were
set(key, value, dependencies) ==
  /\ pc = "idle"
  /\ IF DumpsRaises(value)
       THEN /\ last' = Returned("set_raised", key, value, <<>>, FALSE, "-", {}, PyNone)
            /\ UNCHANGED <<indexFile, cacheFiles, everSet>>
       ELSE IF set_raises(indexFile)
       THEN /\ cacheFiles' = set_files(cacheFiles, key, value)
            /\ last' = Returned("set_raised", key, value, <<>>, FALSE, "-", {}, PyNone)
            /\ UNCHANGED <<indexFile, everSet>>
       ELSE /\ cacheFiles' = set_files(cacheFiles, key, value)
            /\ indexFile' = set_index(indexFile, key, dependencies)
            /\ last' = Returned("set", key, value, dependencies,
                                key \in DOMAIN load_index(indexFile), "-", {}, PyNone)
            /\ everSet' = IF tracking
                            THEN [everSet EXCEPT ![key] = @ \cup Names(dependencies)]
                            ELSE everSet
  /\ UNCHANGED <<universe, tracking, pc, loc, resolverVars, buildVars>>

get(key) ==
  /\ pc = "idle"
  /\ LET after == last.op \in {"set", "crash"} /\ last.key = key
         call == get_call(indexFile, cacheFiles, key)
     IN  last' = Returned(IF call.raised THEN "get_raised" ELSE "get", key,
                          IF after THEN last.value ELSE PyNone, <<>>,
                          after /\ last.existed,
                          CASE after /\ last.op = "set" -> "set"
                            [] after /\ last.op = "crash" -> last.follows
                            [] OTHER -> "-",
                          {}, call.value)
  /\ UNCHANGED <<universe, tracking, indexFile, cacheFiles, everSet, pc, loc, resolverVars, buildVars>>

invalidate(key) ==
  /\ pc = "idle"
  /\ IF invalidate_raises(indexFile, key)
       THEN /\ last' = Returned("invalidate_raised", key, PyNone, <<>>, FALSE, "-",
                                {}, PyNone)
            /\ UNCHANGED <<indexFile, cacheFiles>>
       ELSE /\ cacheFiles' = invalidate_files(indexFile, cacheFiles, key)
            /\ indexFile' = invalidate_index(indexFile, key)
            /\ last' = Returned("invalidate", key, PyNone, <<>>,
                                key \in DOMAIN load_index(indexFile), "-", {}, PyNone)
  /\ UNCHANGED <<universe, tracking, everSet, pc, loc, resolverVars, buildVars>>

invalidate_dependent(dependency) ==
  /\ pc = "idle"
  /\ IF invalidate_dependent_raises(indexFile)
       THEN /\ last' = Returned("invalidate_dependent_raised", dependency, PyNone,
                                <<>>, FALSE, "-", {}, PyNone)
            /\ UNCHANGED <<indexFile, cacheFiles>>
       ELSE LET todo == to_invalidate(indexFile, dependency)
                after == invalidate_all(indexFile, cacheFiles, todo)
            IN  /\ indexFile' = after.indexFile
                /\ cacheFiles' = after.cacheFiles
                /\ last' = Returned("invalidate_dependent", dependency, PyNone, <<>>,
                                    FALSE, "-", todo, PyNone)
  /\ UNCHANGED <<universe, tracking, everSet, pc, loc, resolverVars, buildVars>>

\* clear's loop over glob("*.cache"): every payload file is unlinked
clear_files_kept(files) == files

clear_files(files) == [k \in {} |-> files[k]]

\* clear's unlink of the index file when it exists
clear_index(idxFile) == IF idxFile.exists THEN IndexMissing ELSE idxFile

clear ==
  /\ pc = "idle"
  /\ cacheFiles' = clear_files(cacheFiles)
  /\ indexFile' = clear_index(indexFile)
  /\ last' = Returned("clear", "-", PyNone, <<>>, FALSE, "-",
                      {k \in universe : get_result(indexFile, cacheFiles, k) # PyNone},
                      PyNone)
  /\ UNCHANGED <<universe, tracking, everSet, pc, loc, resolverVars, buildVars>>

NextCache ==
  \/ \E k \in universe, v \in PyValues, d \in DepLists(universe) : set(k, v, d)
  \/ \E k \in universe : get(k)
  \/ \E k \in universe : invalidate(k)
  \/ \E d \in universe : invalidate_dependent(d)
  \/ clear

\* the method-level SmartCache, three keys
SpecCache == InitCache /\ [][NextCache]_vars

\* the same with two keys and the history of the dependency names kept
SpecHistory == InitHistory /\ [][NextCache]_vars

\* ------------------------------------------------------------------------
\* SmartCache: set, get and invalidate_dependent
\* ------------------------------------------------------------------------

\* the values json.loads(json.dumps(v)) gives back as they were
JsonNative(v) == v.type \in {"str", "list", "NoneType"}

StoredDeps(idxFile, k) ==
  IF k \in DOMAIN load_index(idxFile)
    THEN Names(load_index(idxFile)[k].dependencies)
    ELSE {}

\* C1 as stated: a get(k) that immediately follows a completed set(k, v,
\* deps) returns v.
C1_GetReturnsTheValueSet ==
  (last.op = "get" /\ last.follows = "set") => last.result = last.value

\* C1 as amended: in every store state reached by set, invalidate,
\* invalidate_dependent and clear, a completed set(k, v, deps) records deps
\* as the dependency list of k, whether or not k had an entry, and a get(k)
\* that immediately follows it returns json.loads(json.dumps(v)): v itself
\* when v is JSON-native, the list of its items when v is a tuple.  get
\* reads nothing but the two files, so a fresh SmartCache on the same
\* directory returns the same.
C1_GetReturnsTheJsonRoundTrip ==
  /\ last.op = "set" =>
       /\ last.key \in DOMAIN load_index(indexFile)
       /\ load_index(indexFile)[last.key].dependencies = last.dependencies
  /\ (last.op = "get" /\ last.follows = "set") =>
       /\ last.result = json_loads(json_dumps(last.value))
       /\ JsonNative(last.value) => last.result = last.value

\* C1 witness: a get right after a set that overwrote an existing entry
\* returned the value written.
C1_OverwriteThenGet ==
  /\ last.op = "get"
  /\ last.follows = "set"
  /\ last.existed
  /\ last.result = last.value
  /\ last.result # PyNone

\* C2 as stated: after invalidate_dependent(d), get(k) is absent for every
\* key that was ever set with d in its dependency list, and is what it was
\* for every key never set with d.
C2_EverSetWithDependencyIsAbsent ==
  [][\A d \in universe :
       invalidate_dependent(d) =>
         \A k \in universe :
           IF d \in everSet[k]
             THEN get_result(indexFile', cacheFiles', k) = PyNone
             ELSE get_result(indexFile', cacheFiles', k)
                    = get_result(indexFile, cacheFiles, k)]_vars

\* C2 as amended: after invalidate_dependent(d), get(k) is absent for
\* every key whose recorded dependency list (that of its last set)
\* contains d, and is what it was for every other key.
C2_RecordedDependencyIsAbsent ==
  [][\A d \in universe :
       invalidate_dependent(d) =>
         \A k \in universe :
           IF d \in StoredDeps(indexFile, k)
             THEN get_result(indexFile', cacheFiles', k) = PyNone
             ELSE get_result(indexFile', cacheFiles', k)
                    = get_result(indexFile, cacheFiles, k)]_vars

\* C2 witness: invalidate_dependent(d) removed an entry and left another
\* key readable.
C2_SomeRemovedSomeKept ==
  /\ last.op = "invalidate_dependent"
  /\ last.removed # {}
  /\ \E k \in universe : get_result(indexFile, cacheFiles, k) # PyNone

\* C3: invalidate_dependent(d) removes exactly the entries whose recorded
\* dependency list contains d, with their payload files; every other
\* entry, the one of d itself and those that depend only on a removed key
\* included, keeps its dependency list and its value.
C3_SingleLevelInvalidation ==
  [][\A d \in universe :
       (last'.op = "invalidate_dependent" /\ invalidate_dependent(d)) =>
         LET before == load_index(indexFile)
             after == load_index(indexFile')
             gone == { k \in DOMAIN before : InList(d, before[k].dependencies) }
         IN  /\ DOMAIN after = (DOMAIN before) \ gone
             /\ \A k \in DOMAIN after : after[k] = before[k]
             /\ DOMAIN cacheFiles' = (DOMAIN cacheFiles) \ gone
             /\ \A k \in DOMAIN cacheFiles' : cacheFiles'[k] = cacheFiles[k]]_vars

\* C3 witness: after invalidate_dependent(d) the entry of d is still
\* there, and so is an entry that depends on a key the call removed.
C3_DependentOfRemovedKeyKept ==
  /\ last.op = "invalidate_dependent"
  /\ last.key \in DOMAIN load_index(indexFile)
  /\ \E k \in DOMAIN load_index(indexFile) :
       /\ k # last.key
       /\ \E r \in last.removed : InList(r, load_index(indexFile)[k].dependencies)
       /\ get_result(indexFile, cacheFiles, k) # PyNone

\* ------------------------------------------------------------------------
\* DependencyResolver
\* ------------------------------------------------------------------------

\* the depends_on lists handed to add_dependency
DependsOnLists == UNION { [1..n -> Nodes] : n \in 0..MaxEdges }

RECURSIVE SumLen(_, _)
SumLen(deps, keys) ==
  IF keys = {} THEN 0
  ELSE LET k == CHOOSE x \in keys : TRUE
       IN  Len(deps[k]) + SumLen(deps, keys \ {k})

EdgeCount(deps) == SumLen(deps, DOMAIN deps)

\* self.dependency_graph.get(node, [])
DepsOf(node) == IF node \in DOMAIN graphDeps THEN graphDeps[node] ELSE <<>>

\* the keys of the graph and the names that are only somebody's dependency
AllNodes == (DOMAIN graphDeps) \cup UNION { Names(graphDeps[k]) : k \in DOMAIN graphDeps }

\* path.index(node): the first position of node in path
IndexOf(path, node) == CHOOSE i \in 1..Len(path) : path[i] = node /\ \A j \in 1..(i - 1) : path[j] # node

Frame(node, path) == [node |-> node, next |-> 1, path |-> path]

Top == stack[Len(stack)]

Pop == SubSeq(stack, 1, Len(stack) - 1)

\* the caller moves on to its next dependency (or the for loop to its next
\* graph key) when it makes the call
AdvanceCaller ==
  IF stack = <<>>
    THEN /\ outer' = outer + 1
         /\ stack' = stack
    ELSE /\ outer' = outer
         /\ stack' = [stack EXCEPT ![Len(stack)].next = @ + 1]

PushCallee(node, path) ==
  IF stack = <<>>
    THEN /\ outer' = outer + 1
         /\ stack' = <<Frame(node, path)>>
    ELSE /\ outer' = outer
         /\ stack' = Append([stack EXCEPT ![Len(stack)].next = @ + 1], Frame(node, path))

\* a visit call is due: from the for loop over the graph, or from the for
\* loop of the innermost visit over its dependencies
CallDue ==
  IF stack = <<>> THEN outer <= Len(graphKeys) ELSE Top.next <= Len(DepsOf(Top.node))

Callee_reversed ==
  IF stack = <<>>
    THEN graphKeys[Len(graphKeys) + 1 - outer]
    ELSE DepsOf(Top.node)[Len(DepsOf(Top.node)) + 1 - Top.next]

\* the node of the call that is due: the for loops go through the graph's
\* keys and through a dependency list from first to last
Callee == IF stack = <<>> THEN graphKeys[outer] ELSE DepsOf(Top.node)[Top.next]

\* the path argument of the call that is due (detect_cycles): path + [node]
CalleePath == IF stack = <<>> THEN <<>> ELSE Append(Top.path, Top.node)

add_dependency(package, depends_on) ==
  /\ rpc = "idle"
  /\ LET deps == DictSet(graphDeps, package, depends_on)
     IN  /\ EdgeCount(deps) <= MaxEdges
         /\ graphDeps' = deps
         /\ graphKeys' = IF package \in DOMAIN graphDeps
                           THEN graphKeys
                           ELSE Append(graphKeys, package)
  /\ UNCHANGED <<frames, rpc, stack, outer, visited, result, rec_stack, cycles, steps, cacheVars, buildVars>>

\* the frames the interpreter has left for visit calls when a resolver
\* method is called: sys.getrecursionlimit() less the frames in use
FrameRooms == {RecursionLimit - 2, RecursionLimit}

\* a resolver method starts: its locals are fresh
Start(method) ==
  /\ rpc = "idle"
  /\ rpc' = method
  /\ frames' \in FrameRooms
  /\ stack' = <<>>
  /\ outer' = 1
  /\ visited' = {}
  /\ result' = <<>>
  /\ rec_stack' = {}
  /\ cycles' = <<>>
  /\ steps' = 0
  /\ UNCHANGED <<graphKeys, graphDeps, cacheVars, buildVars>>

get_build_order_start == Start("get_build_order")

detect_cycles_start == Start("detect_cycles")

\* if node in visited: return
already_visited(seen, node) == node \in seen

emit_first(order, node) == <<node>> \o order

\* result.append(node)
emit(order, node) == Append(order, node)

\* get_build_order: visit(node) is called
build_visit_call ==
  /\ rpc = "get_build_order"
  /\ CallDue
  /\ steps' = steps + 1
  /\ IF Len(stack) >= frames
       THEN /\ rpc' = "RecursionError"
            /\ UNCHANGED <<stack, outer, visited>>
       ELSE IF already_visited(visited, Callee)
         THEN /\ AdvanceCaller
              /\ UNCHANGED <<visited, rpc>>
         ELSE /\ visited' = visited \cup {Callee}
              /\ PushCallee(Callee, <<>>)
              /\ UNCHANGED rpc
  /\ UNCHANGED <<frames, graphKeys, graphDeps, result, rec_stack, cycles, cacheVars, buildVars>>

\* get_build_order: the innermost visit has gone through its dependencies,
\* appends its node and returns
build_visit_return ==
  /\ rpc = "get_build_order"
  /\ stack # <<>>
  /\ ~CallDue
  /\ result' = emit(result, Top.node)
  /\ stack' = Pop
  /\ steps' = steps + 1
  /\ UNCHANGED <<frames, graphKeys, graphDeps, rpc, outer, visited, rec_stack, cycles, cacheVars, buildVars>>

\* get_build_order: return result
get_build_order_return ==
  /\ rpc = "get_build_order"
  /\ stack = <<>>
  /\ ~CallDue
  /\ rpc' = "built"
  /\ UNCHANGED <<frames, graphKeys, graphDeps, stack, outer, visited, result, rec_stack, cycles, steps, cacheVars, buildVars>>

cycle_path_uncut(path, node) == Append(path, node)

\* path[cycle_start:] + [node]
cycle_path(path, node) ==
  Append(SubSeq(path, IndexOf(path, node), Len(path)), node)

record_cycle_first_only(found, cycle) == IF found = <<>> THEN <<cycle>> ELSE found

\* cycles.append(...); the traversal goes on after it
record_cycle(found, cycle) == Append(found, cycle)

\* detect_cycles: visit(node, path) is called
detect_visit_call ==
  /\ rpc = "detect_cycles"
  /\ CallDue
  /\ steps' = steps + 1
  /\ IF Len(stack) >= frames
       THEN /\ rpc' = "RecursionError"
            /\ UNCHANGED <<stack, outer, visited, rec_stack, cycles>>
       ELSE IF Callee \in rec_stack
         THEN IF InList(Callee, CalleePath)
           THEN /\ cycles' = record_cycle(cycles, cycle_path(CalleePath, Callee))
                /\ AdvanceCaller
                /\ UNCHANGED <<visited, rec_stack, rpc>>
           ELSE /\ rpc' = "ValueError"
                /\ UNCHANGED <<stack, outer, visited, rec_stack, cycles>>
         ELSE IF already_visited(visited, Callee)
           THEN /\ AdvanceCaller
                /\ UNCHANGED <<visited, rec_stack, cycles, rpc>>
           ELSE /\ visited' = visited \cup {Callee}
                /\ rec_stack' = rec_stack \cup {Callee}
                /\ PushCallee(Callee, CalleePath)
                /\ UNCHANGED <<cycles, rpc>>
  /\ UNCHANGED <<frames, graphKeys, graphDeps, result, cacheVars, buildVars>>

\* detect_cycles: the innermost visit leaves the recursion stack and returns
detect_visit_return ==
  /\ rpc = "detect_cycles"
  /\ stack # <<>>
  /\ ~CallDue
  /\ rec_stack' = rec_stack \ {Top.node}
  /\ stack' = Pop
  /\ steps' = steps + 1
  /\ UNCHANGED <<frames, graphKeys, graphDeps, rpc, outer, visited, result, cycles, cacheVars, buildVars>>

\* detect_cycles: return cycles
detect_cycles_return ==
  /\ rpc = "detect_cycles"
  /\ stack = <<>>
  /\ ~CallDue
  /\ rpc' = "detected"
  /\ UNCHANGED <<frames, graphKeys, graphDeps, stack, outer, visited, result, rec_stack, cycles, steps, cacheVars, buildVars>>

\* the caller has its list; the resolver can be used again
resolver_idle ==
  /\ rpc \in {"built", "detected"}
  /\ rpc' = "idle"
  /\ stack' = <<>>
  /\ outer' = 1
  /\ visited' = {}
  /\ result' = <<>>
  /\ rec_stack' = {}
  /\ cycles' = <<>>
  /\ steps' = 0
  /\ UNCHANGED <<frames, graphKeys, graphDeps, cacheVars, buildVars>>

\* the steps of a running method
ResolverRun ==
  \/ build_visit_call
  \/ build_visit_return
  \/ get_build_order_return
  \/ detect_visit_call
  \/ detect_visit_return
  \/ detect_cycles_return

NextResolver ==
  \/ \E p \in Nodes, d \in DependsOnLists : add_dependency(p, d)
  \/ get_build_order_start
  \/ detect_cycles_start
  \/ ResolverRun
  \/ resolver_idle

SpecResolver == InitCache /\ [][NextResolver]_vars

\* a method that was called keeps running until it returns
SpecResolverLive == SpecResolver /\ WF_vars(ResolverRun)

\* ------------------------------------------------------------------------
\* DependencyResolver: build order and cycles
\* ------------------------------------------------------------------------

\* a depends on b
DependsOn(a, b) == InList(b, DepsOf(a))

Successors(S) == UNION { Names(DepsOf(x)) : x \in S }

RECURSIVE Closure(_, _)
Closure(S, n) == IF n = 0 THEN S ELSE Closure(S \cup Successors(S), n - 1)

\* the nodes reached from node along one dependency or more
Descendants(node) == Closure(Successors({node}), Cardinality(Nodes))

HasCycle == \E n \in AllNodes : n \in Descendants(n)

\* C4: when the graph built with add_dependency has no cycle, every
\* dependency stands before its dependent in the list get_build_order
\* returns.
C4_DependenciesComeFirst ==
  (rpc = "built" /\ ~HasCycle) =>
    \A a \in DOMAIN graphDeps :
      \A b \in Names(graphDeps[a]) :
        /\ InList(a, result)
        /\ InList(b, result)
        /\ IndexOf(result, b) < IndexOf(result, a)

\* C4 witness: get_build_order returned for an acyclic graph of three
\* nodes and three edges whose first key is not a leaf.
C4_AcyclicGraphOrdered ==
  /\ rpc = "built"
  /\ ~HasCycle
  /\ EdgeCount(graphDeps) = 3
  /\ Len(result) = 3
  /\ result[1] # graphKeys[1]

\* C5: detect_cycles returns a non-empty list exactly when the graph has a
\* cycle (a self-loop is one); every list it reports starts and ends with
\* the same node and each element depends on the next; for {A: [B],
\* B: [C], C: [A]} a reported cycle covers A, B and C.
C5_CyclesReportedAreReal ==
  /\ rpc # "ValueError"
  /\ rpc = "detected" =>
       /\ (cycles # <<>>) <=> HasCycle
       /\ \A i \in 1..Len(cycles) :
            LET c == cycles[i]
            IN  /\ Len(c) >= 2
                /\ c[1] = c[Len(c)]
                /\ \A j \in 1..(Len(c) - 1) : DependsOn(c[j], c[j + 1])
       /\ graphDeps = [n \in Nodes |->
                         IF n = "A" THEN <<"B">> ELSE IF n = "B" THEN <<"C">> ELSE <<"A">>]
            => \E i \in 1..Len(cycles) : Names(cycles[i]) = Nodes

\* C5 witness: detect_cycles returned one cycle over A, B and C for the
\* graph {A: [B], B: [C], C: [A]}.
C5_ThreeCycleReported ==
  /\ rpc = "detected"
  /\ graphDeps = [n \in Nodes |->
                    IF n = "A" THEN <<"B">> ELSE IF n = "B" THEN <<"C">> ELSE <<"A">>]
  /\ Len(cycles) = 1
  /\ Names(cycles[1]) = Nodes

\* C6: on every graph, cyclic or not, get_build_order and detect_cycles
\* raise nothing, make at most one call per graph key and per dependency
\* entry and one return per node, and do return; the list get_build_order
\* returns holds every key and every name that is only a dependency
\* exactly once.
C6_ResolverTerminates ==
  /\ [](rpc \notin {"RecursionError", "ValueError"})
  /\ [](steps <= Len(graphKeys) + EdgeCount(graphDeps) + Cardinality(AllNodes))
  /\ [](rpc = "built" =>
          /\ Len(result) = Cardinality(AllNodes)
          /\ Names(result) = AllNodes)
  /\ (rpc = "get_build_order" ~> rpc = "built")
  /\ (rpc = "detect_cycles" ~> rpc = "detected")

\* ------------------------------------------------------------------------
\* IntelligentAnalyzer, BuildOrchestrator, ThalosCore
\* ------------------------------------------------------------------------

Strategies ==
  {"intelligent_parallel", "dependency_graph", "incremental_smart",
   "predictive_cache", "adaptive_learning"}

\* the projects of a run, by the languages detected in them
LanguageSets == {{"python"}, {"javascript"}, {"rust", "python"}}

\* IntelligentAnalyzer._infer_build_patterns.  webpack and rollup are build
\* tools of javascript and typescript that _verify_build_tool accepts
\* without a file, so they are in build_tools whenever one of the two
\* languages is detected.
infer_build_patterns(langs) ==
  (IF Cardinality(langs) > 1 THEN {"parallel_capable"} ELSE {})
    \cup (IF langs \cap {"javascript", "typescript"} # {}
            THEN {"incremental_capable"} ELSE {})
    \cup (IF langs \cap {"javascript", "typescript", "rust"} # {}
            THEN {"cache_beneficial"} ELSE {})

\* the exit statuses of the build commands, in the order they would run
CommandResults == { <<>>, <<TRUE>>, <<FALSE>> }

AllTrue(seq) == \A i \in 1..Len(seq) : seq[i]

\* the digest recorded for path, 0 when the signature has no such path
DigestAt(signatures, path) ==
  IF path \in DOMAIN signatures THEN signatures[path] ELSE 0

\* one more than the largest digest of a user file
Base == Cardinality(Contents) + 1

\* The text save_build_cache writes for a signature map, as a number: a
\* different map gives a different text.
CacheText(signatures) ==
  1 + DigestAt(signatures, "a.txt")
    + Base * DigestAt(signatures, "b.txt")
    + Base * Base * DigestAt(signatures, CachePath)

\* hashlib.sha256(content).hexdigest()[:16] of a user file: one digest per
\* content
sha256_16(content) == content

\* the same of build_cache.json, whatever it holds: one digest per text,
\* none of them the digest of a user file
sha256_16_cache(file) ==
  CASE file.kind = "garbage" -> Base
    [] file.kind = "array" -> Base + 1
    [] OTHER -> Base + 1 + CacheText(file.signatures)

\* IntelligentAnalyzer._compute_file_signatures: os.walk over the root,
\* .git, node_modules and __pycache__ left out; .thalos_cache is walked
\* like any other directory
compute_file_signatures(files, cacheFile) ==
  [p \in (DOMAIN files) \cup (IF cacheFile.exists THEN {CachePath} ELSE {}) |->
     IF p = CachePath THEN sha256_16_cache(cacheFile) ELSE sha256_16(files[p])]

\* the body of the try block of _has_valid_cache
valid_cache_try(cacheFile, signatures) ==
  CASE cacheFile.kind = "garbage" -> "JSONDecodeError"
    [] cacheFile.kind = "array" -> "AttributeError"
    [] OTHER -> IF cacheFile.signatures = signatures THEN "True" ELSE "False"

valid_cache_same_paths(cacheFile, signatures) ==
  IF ~cacheFile.exists \/ cacheFile.kind \in {"garbage", "array"} THEN "False"
  ELSE IF DOMAIN cacheFile.signatures = DOMAIN signatures THEN "True" ELSE "False"

\* BuildOrchestrator._has_valid_cache: what the call comes to
valid_cache_outcome(cacheFile, signatures) ==
  IF ~cacheFile.exists THEN "False"
  ELSE IF valid_cache_try(cacheFile, signatures) \in {"JSONDecodeError", "AttributeError"}
    THEN "False"
    ELSE valid_cache_try(cacheFile, signatures)

has_valid_cache(cacheFile, signatures) ==
  valid_cache_outcome(cacheFile, signatures) = "True"

\* BuildOrchestrator._select_optimal_strategy
select_optimal_strategy(cacheFile, ctx) ==
  IF "cache_beneficial" \in ctx.optimization_hints
     /\ has_valid_cache(cacheFile, ctx.file_signatures)
    THEN "predictive_cache"
  ELSE IF "incremental_capable" \in ctx.optimization_hints THEN "incremental_smart"
  ELSE IF "parallel_capable" \in ctx.optimization_hints THEN "intelligent_parallel"
  ELSE "dependency_graph"

\* the commands _execute_standard_builds runs: it stops at the first failure
RanStandard(results) ==
  IF AllTrue(results) THEN Len(results)
  ELSE CHOOSE i \in 1..Len(results) : ~results[i] /\ \A j \in 1..(i - 1) : results[j]

\* BuildOrchestrator.orchestrate_build; valid notes what _has_valid_cache
\* gives at the time of the call
orchestrate_build(cacheFile, ctx, strategy, results) ==
  LET chosen == IF strategy = "adaptive_learning"
                  THEN select_optimal_strategy(cacheFile, ctx)
                  ELSE strategy
      valid == has_valid_cache(cacheFile, ctx.file_signatures)
  IN  CASE chosen = "predictive_cache" ->
             [success |-> TRUE, cached |-> TRUE, ran |-> 0, valid |-> valid]
        [] chosen = "intelligent_parallel" ->
             [success |-> AllTrue(results), cached |-> FALSE,
              ran |-> Len(results), valid |-> valid]
        [] OTHER ->
             [success |-> AllTrue(results), cached |-> FALSE,
              ran |-> RanStandard(results), valid |-> valid]

\* BuildOrchestrator.save_build_cache: the file written
save_build_cache(ctx) ==
  [exists |-> TRUE, kind |-> "object", signatures |-> ctx.file_signatures]

\* IntelligentAnalyzer.analyze_project: the context returned
analyze_project(files, cacheFile, langs) ==
  [file_signatures |-> compute_file_signatures(files, cacheFile),
   optimization_hints |-> infer_build_patterns(langs)]

\* the user writes a tracked file
write_file(path, content) ==
  /\ projectFiles' = DictSet(projectFiles, path, content)
  /\ projectFiles' # projectFiles
  /\ untouched' = FALSE
  /\ UNCHANGED <<buildCacheFile, languages, context, lastBuild, recorded, saves,
                 cacheVars, resolverVars>>

\* the user removes a tracked file
remove_file(path) ==
  /\ path \in DOMAIN projectFiles
  /\ projectFiles' = DictDel(projectFiles, path)
  /\ untouched' = FALSE
  /\ UNCHANGED <<buildCacheFile, languages, context, lastBuild, recorded, saves,
                 cacheVars, resolverVars>>

\* build_cache.json is damaged from outside: no JSON, or JSON that is not
\* an object
damage_build_cache(kind) ==
  /\ buildCacheFile.exists
  /\ buildCacheFile' = [exists |-> TRUE, kind |-> kind, signatures |-> NoSignatures]
  /\ buildCacheFile' # buildCacheFile
  /\ recorded' = NotRecorded
  /\ untouched' = FALSE
  /\ UNCHANGED <<projectFiles, languages, context, lastBuild, saves,
                 cacheVars, resolverVars>>

\* build_cache.json is removed from outside
remove_build_cache ==
  /\ buildCacheFile.exists
  /\ buildCacheFile' = NoBuildCache
  /\ recorded' = NotRecorded
  /\ untouched' = FALSE
  /\ UNCHANGED <<projectFiles, languages, context, lastBuild, saves,
                 cacheVars, resolverVars>>

\* ThalosCore.analyze_and_build: analyze_project, orchestrate_build, and
\* save_build_cache when the build succeeded
analyze_and_build(strategy, results) ==
  LET ctx == analyze_project(projectFiles, buildCacheFile, languages)
      built == orchestrate_build(buildCacheFile, ctx, strategy, results)
  IN  /\ context' = ctx
      /\ lastBuild' = built
      /\ IF built.success
           THEN /\ saves < MaxSaves
                /\ buildCacheFile' = save_build_cache(ctx)
                /\ recorded' = [intact |-> TRUE, signatures |-> ctx.file_signatures]
                /\ untouched' = TRUE
                /\ saves' = saves + 1
           ELSE UNCHANGED <<buildCacheFile, recorded, untouched, saves>>
      /\ UNCHANGED <<projectFiles, languages, cacheVars, resolverVars>>

\* orchestrate_build called once more on the BuildOrchestrator that
\* analyze_and_build made: its context is the one analysed then
orchestrate_build_again(strategy, results) ==
  /\ lastBuild # NoBuild
  /\ lastBuild' = orchestrate_build(buildCacheFile, context, strategy, results)
  /\ lastBuild' # lastBuild
  /\ UNCHANGED <<projectFiles, buildCacheFile, languages, context, recorded,
                 untouched, saves, cacheVars, resolverVars>>

NextBuild ==
  \/ \E p \in EditedPaths, c \in Contents : write_file(p, c)
  \/ \E p \in EditedPaths : remove_file(p)
  \/ \E k \in {"garbage", "array"} : damage_build_cache(k)
  \/ remove_build_cache
  \/ \E st \in Strategies, r \in CommandResults : analyze_and_build(st, r)
  \/ \E st \in Strategies, r \in CommandResults : orchestrate_build_again(st, r)

InitBuild ==
  /\ InitResolver
  /\ universe = Keys
  /\ tracking = FALSE
  /\ everSet = [k \in Keys |-> {}]
  /\ InitFiles
  /\ projectFiles \in [UserPaths -> Contents]
  /\ \A p \in UserPaths \ EditedPaths : projectFiles[p] = 1
  /\ buildCacheFile = NoBuildCache
  /\ languages \in LanguageSets
  /\ context = NoContext
  /\ lastBuild = NoBuild
  /\ recorded = NotRecorded
  /\ untouched = FALSE
  /\ saves = 0

SpecBuild == InitBuild /\ [][NextBuild]_vars

\* ------------------------------------------------------------------------
\* The build cache: signatures, validity, the cached outcome
\* ------------------------------------------------------------------------

\* C7: once analyze_and_build has succeeded and recorded the build cache,
\* and no file was changed from outside since, a new analysis of the
\* project gives the recorded signature, _has_valid_cache is true for it,
\* and with cache_beneficial set the adaptive strategy is PREDICTIVE_CACHE.
C7_UnchangedProjectHitsCache ==
  untouched =>
    LET ctx == analyze_project(projectFiles, buildCacheFile, languages)
    IN  /\ ctx.file_signatures = recorded.signatures
        /\ has_valid_cache(buildCacheFile, ctx.file_signatures)
        /\ "cache_beneficial" \in ctx.optimization_hints
             => select_optimal_strategy(buildCacheFile, ctx) = "predictive_cache"

\* the signature maps one change away from signatures: a digest changed,
\* a path added, a path removed
Variants(signatures) ==
  { DictSet(signatures, p, c) : p \in UserPaths, c \in Contents }
    \cup { DictDel(signatures, p) : p \in DOMAIN signatures }

\* the signature maps _has_valid_cache is asked about: the one recorded,
\* those one change away from it, the orchestrator's own and that of the
\* project as it is now
Queried ==
  {recorded.signatures, context.file_signatures,
   compute_file_signatures(projectFiles, buildCacheFile)}
    \cup Variants(recorded.signatures)

\* C8: _has_valid_cache is true exactly when build_cache.json is the file
\* save_build_cache wrote and the signature map asked about equals the
\* recorded one, path for path and digest for digest; with the file
\* missing, no JSON or no JSON object it is false, and no exception leaves
\* the method.
C8_ValidExactlyOnEqualSignature ==
  \A signatures \in Queried :
    /\ valid_cache_outcome(buildCacheFile, signatures) \in {"True", "False"}
    /\ has_valid_cache(buildCacheFile, signatures)
         <=> (recorded.intact /\ signatures = recorded.signatures)

\* C8 witness: the orchestrator that recorded the signature finds the
\* cache valid, and the project as it is now, with b.txt changed, does not.
C8_HitThenMissOnChangedDigest ==
  /\ recorded.intact
  /\ lastBuild.valid
  /\ context.file_signatures = recorded.signatures
  /\ "b.txt" \in DOMAIN projectFiles
  /\ "b.txt" \in DOMAIN recorded.signatures
  /\ recorded.signatures["b.txt"] # sha256_16(projectFiles["b.txt"])
  /\ ~has_valid_cache(buildCacheFile,
                      compute_file_signatures(projectFiles, buildCacheFile))

\* C9: whatever strategy orchestrate_build is given, it returns "Build
\* succeeded (cached)" with no command run only when build_cache.json
\* holds a signature equal to the signature of the orchestrator's context.
C9_CachedOnlyWhenValid ==
  lastBuild.cached => lastBuild.valid

\* ------------------------------------------------------------------------
\* SmartCache.set and SmartCache.invalidate, statement by statement, in a
\* process that can stop
\* ------------------------------------------------------------------------

\* what a write_text that was cut short leaves: no JSON document
TornText == [kind |-> "garbage", body |-> "-"]

TornIndex == [exists |-> TRUE, kind |-> "garbage", entries |-> EmptyDict]

\* set, line 193: index = self._load_index()
set_load_index(key, value, dependencies) ==
  /\ pc = "idle"
  /\ pc' = "set_write"
  /\ loc' = [key |-> key, value |-> value, dependencies |-> dependencies,
             index |-> load_index(indexFile)]
  /\ UNCHANGED <<universe, tracking, indexFile, cacheFiles, last, everSet,
                 resolverVars, buildVars>>

\* set, lines 195-196: cache_file.write_text(json.dumps(value))
set_write_payload ==
  /\ pc = "set_write"
  /\ IF DumpsRaises(loc.value)
       THEN /\ last' = Returned("set_raised", loc.key, loc.value, <<>>, FALSE,
                                "-", {}, PyNone)
            /\ pc' = "idle"
            /\ loc' = <<>>
            /\ UNCHANGED cacheFiles
       ELSE /\ cacheFiles' = set_files(cacheFiles, loc.key, loc.value)
            /\ pc' = "set_save"
            /\ UNCHANGED <<last, loc>>
  /\ UNCHANGED <<universe, tracking, indexFile, everSet, resolverVars, buildVars>>

\* set, lines 198-204: index[key] = {...}; self._save_index(index)
set_save_index ==
  /\ pc = "set_save"
  /\ indexFile' = save_index(DictSet(loc.index, loc.key,
                                     NewEntry(loc.key, loc.dependencies)))
  /\ last' = Returned("set", loc.key, loc.value, loc.dependencies,
                      loc.key \in DOMAIN loc.index, "-", {}, PyNone)
  /\ pc' = "idle"
  /\ loc' = <<>>
  /\ UNCHANGED <<universe, tracking, cacheFiles, everSet, resolverVars, buildVars>>

\* invalidate, lines 208-209: index = self._load_index(); if key in index
invalidate_load_index(key) ==
  /\ pc = "idle"
  /\ IF key \in DOMAIN load_index(indexFile)
       THEN /\ pc' = "invalidate_unlink"
            /\ loc' = [key |-> key, value |-> PyNone, dependencies |-> <<>>,
                       index |-> load_index(indexFile)]
            /\ UNCHANGED last
       ELSE /\ last' = Returned("invalidate", key, PyNone, <<>>, FALSE, "-", {}, PyNone)
            /\ UNCHANGED <<pc, loc>>
  /\ UNCHANGED <<universe, tracking, indexFile, cacheFiles, everSet,
                 resolverVars, buildVars>>

\* invalidate, lines 210-212: cache_file.unlink() if it exists
invalidate_unlink ==
  /\ pc = "invalidate_unlink"
  /\ cacheFiles' = DictDel(cacheFiles, loc.index[loc.key].file)
  /\ pc' = "invalidate_save"
  /\ UNCHANGED <<universe, tracking, indexFile, last, everSet, loc,
                 resolverVars, buildVars>>

\* invalidate, lines 213-214: del index[key]; self._save_index(index)
invalidate_save_index ==
  /\ pc = "invalidate_save"
  /\ indexFile' = save_index(DictDel(loc.index, loc.key))
  /\ last' = Returned("invalidate", loc.key, PyNone, <<>>, TRUE, "-", {}, PyNone)
  /\ pc' = "idle"
  /\ loc' = <<>>
  /\ UNCHANGED <<universe, tracking, cacheFiles, everSet, resolverVars, buildVars>>

\* The process stops before the statement at pc, or (torn) inside its
\* write_text, which has truncated the file and not written all of the
\* text; json.dumps has returned before write_text is entered.  The
\* process that comes after starts with no call running.
crash(torn) ==
  /\ pc # "idle"
  /\ IF torn
       THEN \/ /\ pc = "set_write"
               /\ ~DumpsRaises(loc.value)
               /\ cacheFiles' = DictSet(cacheFiles, loc.key, TornText)
               /\ UNCHANGED indexFile
            \/ /\ pc \in {"set_save", "invalidate_save"}
               /\ indexFile' = TornIndex
               /\ UNCHANGED cacheFiles
       ELSE UNCHANGED <<indexFile, cacheFiles>>
  /\ last' = Returned("crash", loc.key, loc.value, loc.dependencies,
                      loc.key \in DOMAIN loc.index,
                      IF torn THEN "torn" ELSE pc, {}, PyNone)
  /\ pc' = "idle"
  /\ loc' = <<>>
  /\ UNCHANGED <<universe, tracking, everSet, resolverVars, buildVars>>

NextCrash ==
  \/ \E k \in universe, v \in PyValues, d \in DepLists(universe) :
       set_load_index(k, v, d)
  \/ set_write_payload
  \/ set_save_index
  \/ \E k \in universe : invalidate_load_index(k)
  \/ invalidate_unlink
  \/ invalidate_save_index
  \/ \E torn \in BOOLEAN : crash(torn)
  \/ \E k \in universe : get(k)

InitCrash ==
  /\ InitResolver
  /\ InitBuildIdle
  /\ universe = SmallKeys
  /\ tracking = FALSE
  /\ everSet = [k \in SmallKeys |-> {}]
  /\ InitFiles

\* the statement-level SmartCache, two keys, with stops
SpecCrash == InitCrash /\ [][NextCrash]_vars

\* C10: whatever statement of set or invalidate the process stopped at,
\* a later get raises nothing; what it returns other than None is the
\* parsed content of the payload file of its key, which exists and has an
\* index entry; a key with an index entry and no payload file reads as
\* None; and after a stop between the payload write and the index update
\* of a set on a key that had no index entry, the key reads as None.
C10_GetAfterCrashNeverDangles ==
  [][\A k \in universe :
       get(k) =>
         /\ last'.op = "get"
         /\ last'.result # PyNone =>
              /\ k \in DOMAIN cacheFiles
              /\ k \in DOMAIN load_index(indexFile)
              /\ last'.result = json_loads(cacheFiles[k])
         /\ (k \in DOMAIN load_index(indexFile) /\ k \notin DOMAIN cacheFiles)
              => last'.result = PyNone
         /\ (last'.follows = "set_save" /\ ~last'.existed)
              => last'.result = PyNone]_vars

\* C10 witness: the process stopped in set after the payload of a fresh
\* key was written and before the index was; the payload file is there,
\* the index has no entry, and get returned None.
C10_FreshKeyLostIndexUpdateAbsent ==
  /\ last.op = "get"
  /\ last.follows = "set_save"
  /\ ~last.existed
  /\ last.key \in DOMAIN cacheFiles
  /\ last.key \notin DOMAIN load_index(indexFile)
  /\ last.result = PyNone

\* ------------------------------------------------------------------------
\* SmartCache on a cache directory that is damaged from outside
\* ------------------------------------------------------------------------

\* a payload file is removed
lose_payload(key) ==
  /\ pc = "idle"
  /\ key \in DOMAIN cacheFiles
  /\ cacheFiles' = DictDel(cacheFiles, key)
  /\ last' = Returned("damage", key, PyNone, <<>>, FALSE, "-", {}, PyNone)
  /\ UNCHANGED <<universe, tracking, indexFile, everSet, pc, loc, resolverVars, buildVars>>

\* a payload file is overwritten with text that is no JSON
damage_payload(key) ==
  /\ pc = "idle"
  /\ key \in DOMAIN cacheFiles
  /\ cacheFiles[key] # TornText
  /\ cacheFiles' = DictSet(cacheFiles, key, TornText)
  /\ last' = Returned("damage", key, PyNone, <<>>, FALSE, "-", {}, PyNone)
  /\ UNCHANGED <<universe, tracking, indexFile, everSet, pc, loc, resolverVars, buildVars>>

\* cache_index.json is removed
lose_index ==
  /\ pc = "idle"
  /\ indexFile.exists
  /\ indexFile' = IndexMissing
  /\ last' = Returned("damage", "-", PyNone, <<>>, FALSE, "-", {}, PyNone)
  /\ UNCHANGED <<universe, tracking, cacheFiles, everSet, pc, loc, resolverVars, buildVars>>

\* cache_index.json is overwritten with text that is no JSON
damage_index ==
  /\ pc = "idle"
  /\ indexFile # TornIndex
  /\ indexFile' = TornIndex
  /\ last' = Returned("damage", "-", PyNone, <<>>, FALSE, "-", {}, PyNone)
  /\ UNCHANGED <<universe, tracking, cacheFiles, everSet, pc, loc, resolverVars, buildVars>>

\* cache_index.json is overwritten with a JSON document that is no object:
\* [] (kind "array") or a number
misshape_index(kind) ==
  /\ pc = "idle"
  /\ indexFile' = [exists |-> TRUE, kind |-> kind, entries |-> EmptyDict]
  /\ indexFile' # indexFile
  /\ last' = Returned("damage", "-", PyNone, <<>>, FALSE, "-", {}, PyNone)
  /\ UNCHANGED <<universe, tracking, cacheFiles, everSet, pc, loc, resolverVars, buildVars>>

\* the index entry of key is overwritten with {}
strip_entry(key) ==
  /\ pc = "idle"
  /\ index_type(indexFile) = "dict"
  /\ key \in DOMAIN load_index(indexFile)
  /\ load_index(indexFile)[key] # StrippedEntry
  /\ indexFile' = save_index(DictSet(load_index(indexFile), key, StrippedEntry))
  /\ last' = Returned("damage", key, PyNone, <<>>, FALSE, "-", {}, PyNone)
  /\ UNCHANGED <<universe, tracking, cacheFiles, everSet, pc, loc, resolverVars, buildVars>>

\* files lost or made unparseable
NextDamage ==
  \/ NextCache
  \/ \E k \in universe : lose_payload(k)
  \/ \E k \in universe : damage_payload(k)
  \/ lose_index
  \/ damage_index

\* and files that parse but have the wrong shape
NextCorrupt ==
  \/ NextDamage
  \/ \E kind \in {"array", "number"} : misshape_index(kind)
  \/ \E k \in universe : strip_entry(k)

\* the method-level SmartCache, two keys, files lost or unparseable
SpecDamage == InitCrash /\ [][NextDamage]_vars

\* the same, and files of the wrong shape
SpecCorrupt == InitCrash /\ [][NextCorrupt]_vars

\* key is touched by damage: its payload is missing or no JSON, the index
\* is missing, no JSON or no object, or its entry has no fields
Affected(idxFile, files, key) ==
  \/ key \notin DOMAIN files
  \/ LoadsRaises(files[key])
  \/ ~idxFile.exists
  \/ idxFile.kind # "object"
  \/ key \notin DOMAIN idxFile.entries
  \/ idxFile.entries[key] = StrippedEntry

\* C11: whatever the index file or a payload file holds (missing, no JSON,
\* JSON of the wrong shape), get, set, invalidate and invalidate_dependent
\* raise nothing (set but for a value json.dumps rejects), get returns
\* None for every affected key, and an unreadable index reads as an empty
\* cache.
C11_CorruptionNeverRaises ==
  [][/\ last'.op \notin {"get_raised", "invalidate_raised", "invalidate_dependent_raised"}
     /\ last'.op = "set_raised" => DumpsRaises(last'.value)
     /\ \A k \in universe :
          (get(k) /\ Affected(indexFile, cacheFiles, k)) => last'.result = PyNone]_vars

\* C12: from a store in which the index or the payload of k is damaged or
\* missing, set(k, v, deps) with a value json.dumps accepts completes, a
\* get(k) of the store it leaves returns v as JSON gives it back, and every
\* other key that was readable before the set returns what it returned.
C12_SetRepairsDamagedStore ==
  [][(/\ last'.op \in {"set", "set_raised"}
      /\ ~DumpsRaises(last'.value)
      /\ Affected(indexFile, cacheFiles, last'.key)) =>
        /\ last'.op = "set"
        /\ get_result(indexFile', cacheFiles', last'.key)
             = json_loads(json_dumps(last'.value))
        /\ \A k2 \in universe \ {last'.key} :
             get_result(indexFile, cacheFiles, k2) # PyNone =>
               get_result(indexFile', cacheFiles', k2)
                 = get_result(indexFile, cacheFiles, k2)]_vars

\* C13: clear() leaves no payload file and no index file, so get(k) is
\* None for every key, those stored before it included; on a store that
\* has no file it changes nothing; and a set(k, v, deps) right after it
\* completes (for a value json.dumps accepts) and makes get(k) return v as
\* JSON gives it back.  clear has no raising outcome.
C13_ClearEmptiesTheStore ==
  [][/\ last'.op = "clear" =>
          /\ cacheFiles' = EmptyDict
          /\ indexFile' = IndexMissing
          /\ \A k \in universe : get_result(indexFile', cacheFiles', k) = PyNone
          /\ (cacheFiles = EmptyDict /\ indexFile = IndexMissing) =>
               (cacheFiles' = cacheFiles /\ indexFile' = indexFile)
     /\ (/\ last.op = "clear"
         /\ last'.op \in {"set", "set_raised"}
         /\ ~DumpsRaises(last'.value)) =>
          /\ last'.op = "set"
          /\ get_result(indexFile', cacheFiles', last'.key)
               = json_loads(json_dumps(last'.value))]_vars

\* C13 witness: a clear returned on a store in which both keys were
\* readable.
C13_ClearRemovedEveryKey ==
  /\ last.op = "clear"
  /\ last.removed = universe
  /\ universe # {}

\* C14: with files intact, lost or unparseable, invalidate(k) always
\* returns; after it k has no index entry and get(k) is None, whether k had an entry or not and whether its payload file was
\* there, lost or unparseable; every other key returns from get what it
\* returned before and keeps its recorded dependency list.
C14_InvalidateRemovesOnlyItsKey ==
  [][/\ last'.op # "invalidate_raised"
     /\ last'.op = "invalidate" =>
       /\ last'.key \notin DOMAIN load_index(indexFile')
       /\ get_result(indexFile', cacheFiles', last'.key) = PyNone
       /\ \A k2 \in universe \ {last'.key} :
            /\ get_result(indexFile', cacheFiles', k2)
                 = get_result(indexFile, cacheFiles, k2)
            /\ k2 \in DOMAIN load_index(indexFile')
                 <=> k2 \in DOMAIN load_index(indexFile)
            /\ k2 \in DOMAIN load_index(indexFile) =>
                 load_index(indexFile')[k2].dependencies
                   = load_index(indexFile)[k2].dependencies]_vars

\* C14 witness: invalidate(k) returned for a key that had an entry, and
\* another key that depends on a key is still readable.
C14_InvalidatedOneKeptOther ==
  /\ last.op = "invalidate"
  /\ last.existed
  /\ \E k2 \in universe \ {last.key} :
       /\ get_result(indexFile, cacheFiles, k2) # PyNone
       /\ load_index(indexFile)[k2].dependencies # <<>>

\* ------------------------------------------------------------------------
\* SmartCache called from two threads: pc and loc are per thread, and a
\* thread switch can fall between any two statements of set and invalidate
\* ------------------------------------------------------------------------

Threads == {"t1", "t2"}

\* the values the threads store: two that json.dumps accepts
ThreadValues == {v \in PyValues : v.type \in {"str", "list"}}

\* the locals of a thread that runs no call
NoCall == [key |-> "-", value |-> PyNone, dependencies |-> <<>>, index |-> EmptyDict]

\* some thread other than t is inside an operation on key
Busy(t, key) == \E u \in Threads \ {t} : pc[u] # "idle" /\ loc[u].key = key

\* no thread is inside an operation on key
Quiet(key) == \A u \in Threads : pc[u] = "idle" \/ loc[u].key # key

\* set, line 193, in thread t; the callers' rule: no other operation on
\* the same key is running
thread_set_load_index(t, key, value, dependencies) ==
  /\ pc[t] = "idle"
  /\ ~Busy(t, key)
  /\ pc' = [pc EXCEPT ![t] = "set_write"]
  /\ loc' = [loc EXCEPT ![t] = [key |-> key, value |-> value,
                                dependencies |-> dependencies,
                                index |-> load_index(indexFile)]]
  /\ UNCHANGED <<universe, tracking, indexFile, cacheFiles, last, everSet,
                 resolverVars, buildVars>>

\* set, lines 195-196, in thread t
thread_set_write_payload(t) ==
  /\ pc[t] = "set_write"
  /\ IF DumpsRaises(loc[t].value)
       THEN /\ last' = Returned("set_raised", loc[t].key, loc[t].value, <<>>,
                                FALSE, "-", {}, PyNone)
            /\ pc' = [pc EXCEPT ![t] = "idle"]
            /\ loc' = [loc EXCEPT ![t] = NoCall]
            /\ UNCHANGED cacheFiles
       ELSE /\ cacheFiles' = set_files(cacheFiles, loc[t].key, loc[t].value)
            /\ pc' = [pc EXCEPT ![t] = "set_save"]
            /\ UNCHANGED <<last, loc>>
  /\ UNCHANGED <<universe, tracking, indexFile, everSet, resolverVars, buildVars>>

\* set, lines 198-204, in thread t
thread_set_save_index(t) ==
  /\ pc[t] = "set_save"
  /\ indexFile' = save_index(DictSet(loc[t].index, loc[t].key,
                                     NewEntry(loc[t].key, loc[t].dependencies)))
  /\ last' = Returned("set", loc[t].key, loc[t].value, loc[t].dependencies,
                      loc[t].key \in DOMAIN loc[t].index, "-", {}, PyNone)
  /\ pc' = [pc EXCEPT ![t] = "idle"]
  /\ loc' = [loc EXCEPT ![t] = NoCall]
  /\ UNCHANGED <<universe, tracking, cacheFiles, everSet, resolverVars, buildVars>>

\* invalidate, lines 208-209, in thread t
thread_invalidate_load_index(t, key) ==
  /\ pc[t] = "idle"
  /\ ~Busy(t, key)
  /\ IF key \in DOMAIN load_index(indexFile)
       THEN /\ pc' = [pc EXCEPT ![t] = "invalidate_unlink"]
            /\ loc' = [loc EXCEPT ![t] = [key |-> key, value |-> PyNone,
                                          dependencies |-> <<>>,
                                          index |-> load_index(indexFile)]]
            /\ UNCHANGED last
       ELSE /\ last' = Returned("invalidate", key, PyNone, <<>>, FALSE, "-", {}, PyNone)
            /\ UNCHANGED <<pc, loc>>
  /\ UNCHANGED <<universe, tracking, indexFile, cacheFiles, everSet,
                 resolverVars, buildVars>>

\* invalidate, lines 210-212, in thread t
thread_invalidate_unlink(t) ==
  /\ pc[t] = "invalidate_unlink"
  /\ cacheFiles' = DictDel(cacheFiles, loc[t].index[loc[t].key].file)
  /\ pc' = [pc EXCEPT ![t] = "invalidate_save"]
  /\ UNCHANGED <<universe, tracking, indexFile, last, everSet, loc,
                 resolverVars, buildVars>>

\* invalidate, lines 213-214, in thread t
thread_invalidate_save_index(t) ==
  /\ pc[t] = "invalidate_save"
  /\ indexFile' = save_index(DictDel(loc[t].index, loc[t].key))
  /\ last' = Returned("invalidate", loc[t].key, PyNone, <<>>, TRUE, "-", {}, PyNone)
  /\ pc' = [pc EXCEPT ![t] = "idle"]
  /\ loc' = [loc EXCEPT ![t] = NoCall]
  /\ UNCHANGED <<universe, tracking, cacheFiles, everSet, resolverVars, buildVars>>

NextThreads ==
  \/ \E t \in Threads, k \in universe, v \in ThreadValues :
       thread_set_load_index(t, k, v, <<>>)
  \/ \E t \in Threads : thread_set_write_payload(t)
  \/ \E t \in Threads : thread_set_save_index(t)
  \/ \E t \in Threads, k \in universe : thread_invalidate_load_index(t, k)
  \/ \E t \in Threads : thread_invalidate_unlink(t)
  \/ \E t \in Threads : thread_invalidate_save_index(t)

InitThreads ==
  /\ InitResolver
  /\ InitBuildIdle
  /\ universe = SmallKeys
  /\ tracking = FALSE
  /\ everSet = [k \in SmallKeys |-> {}]
  /\ indexFile = IndexMissing
  /\ cacheFiles = EmptyDict
  /\ last = Returned("init", "-", PyNone, <<>>, FALSE, "-", {}, PyNone)
  /\ pc = [t \in Threads |-> "idle"]
  /\ loc = [t \in Threads |-> NoCall]

\* two threads on one cache directory, never two operations on one key
SpecThreads == InitThreads /\ [][NextThreads]_vars

\* C15: when no two operations on the same key overlap, a key that no
\* thread is operating on returns from get, after any statement of any
\* thread, the value it returned before it: what a completed set stored
\* stays readable until an operation on that key itself.
C15_OtherKeysStayVisible ==
  [][\A k \in universe :
       (/\ Quiet(k)
        /\ get_result(indexFile, cacheFiles, k) # PyNone) =>
          get_result(indexFile', cacheFiles', k)
            = get_result(indexFile, cacheFiles, k)]_vars

\* ------------------------------------------------------------------------
\* The build cache record and failed builds
\* ------------------------------------------------------------------------

\* C16: analyze_and_build writes build_cache.json only when the build it
\* ran returned success, a failed build leaves the file as it was, and a
\* project state whose build failed and that had no valid record is not
\* given one by a build that did no work: if the record is valid for it
\* after the next analyze_and_build, that build ran and succeeded.
C16_FailedStateNeverValid ==
  [][\A st \in Strategies, r \in CommandResults :
       analyze_and_build(st, r) =>
         /\ ~lastBuild'.success => buildCacheFile' = buildCacheFile
         /\ buildCacheFile' # buildCacheFile => lastBuild'.success
         /\ (/\ lastBuild # NoBuild
             /\ ~lastBuild.success
             /\ context'.file_signatures = context.file_signatures
             /\ ~has_valid_cache(buildCacheFile, context.file_signatures)
             /\ has_valid_cache(buildCacheFile', context'.file_signatures)) =>
               ~lastBuild'.cached]_vars

\* ------------------------------------------------------------------------
\* detect_cycles on every graph of three packages
\* ------------------------------------------------------------------------

\* the longest dependency list of a package
MaxList == 2

\* dependency lists that name a package at most once
CycleLists ==
  { d \in UNION { [1..n -> Nodes] : n \in 0..MaxList } :
      \A i, j \in 1..Len(d) : i < j => d[i] # d[j] }

\* add_dependency was called for A, B and C in this order
InitCycles ==
  /\ InitBuildIdle
  /\ universe = Keys
  /\ tracking = FALSE
  /\ everSet = [k \in Keys |-> {}]
  /\ InitFiles
  /\ graphKeys = <<"A", "B", "C">>
  /\ graphDeps \in [Nodes -> CycleLists]
  /\ rpc = "idle"
  /\ stack = <<>>
  /\ outer = 1
  /\ visited = {}
  /\ result = <<>>
  /\ rec_stack = {}
  /\ cycles = <<>>
  /\ steps = 0
  /\ frames = RecursionLimit

NextCycles ==
  \/ detect_cycles_start
  \/ detect_visit_call
  \/ detect_visit_return
  \/ detect_cycles_return

SpecCycles == InitCycles /\ [][NextCycles]_vars

\* the elementary cycles of the graph: lists of distinct packages, each
\* depending on the next and the last on the first
ElementaryCycles ==
  { c \in UNION { [1..n -> Nodes] : n \in 1..Cardinality(Nodes) } :
      /\ \A i, j \in 1..Len(c) : i < j => c[i] # c[j]
      /\ \A j \in 1..Len(c) : DependsOn(c[j], c[(j % Len(c)) + 1]) }

\* the packages that reach node and are reached from it
Group(node) == {m \in AllNodes : m \in Descendants(node) /\ node \in Descendants(m)}

\* C17 as stated: detect_cycles returns, for every elementary cycle of the
\* graph, a cycle over exactly its packages.
C17_EveryElementaryCycleReported ==
  rpc = "detected" =>
    \A c \in ElementaryCycles :
      \E i \in 1..Len(cycles) : Names(cycles[i]) = Names(c)

\* C17 as amended: detect_cycles does not stop at the first cycle: it
\* visits every package, and it reports at least one cycle inside every
\* group of packages that reach each other, and every package that lists
\* itself as [n, n]; it reports a cycle where a dependency points back to a
\* package on the path of the traversal, and not every elementary cycle.
C17_OneCycleInEveryGroup ==
  rpc = "detected" =>
    /\ visited = AllNodes
    /\ \A n \in AllNodes :
         n \in Descendants(n) =>
           \E i \in 1..Len(cycles) : Names(cycles[i]) \subseteq Group(n)
    /\ \A n \in AllNodes :
         DependsOn(n, n) => \E i \in 1..Len(cycles) : cycles[i] = <<n, n>>

\* C17 witness: detect_cycles returned two cycles or more and left an
\* elementary cycle of the graph out.
C17_TwoReportedOneMissed ==
  /\ rpc = "detected"
  /\ Len(cycles) >= 2
  /\ \E c \in ElementaryCycles :
       \A i \in 1..Len(cycles) : Names(cycles[i]) # Names(c)

\* ------------------------------------------------------------------------
\* _compute_file_signatures as the loop over os.walk that it is
\* ------------------------------------------------------------------------

\* the files os.walk comes to: the user's and build_cache.json if there
WalkedPaths(files, cacheFile) ==
  (DOMAIN files) \cup (IF cacheFile.exists THEN {CachePath} ELSE {})

\* the orders os.walk can enumerate them in
Enumerations(paths) ==
  { o \in [1..Cardinality(paths) -> paths] :
      \A i, j \in 1..Cardinality(paths) : i < j => o[i] # o[j] }

\* hashlib.sha256(file_path.read_bytes()).hexdigest()[:16]
file_digest(path, files, cacheFile) ==
  IF path = CachePath THEN sha256_16_cache(cacheFile) ELSE sha256_16(files[path])

walk_step_chained(signatures, path, digest) ==
  DictSet(signatures, path, digest + Cardinality(DOMAIN signatures))

\* signatures[rel_path] = signature
walk_step(signatures, path, digest) == DictSet(signatures, path, digest)

\* the dict after the loop has run over the files in this order
RECURSIVE walk_signatures(_, _, _)
walk_signatures(order, files, cacheFile) ==
  IF order = <<>> THEN NoSignatures
  ELSE LET path == order[Len(order)]
       IN  walk_step(walk_signatures(SubSeq(order, 1, Len(order) - 1), files, cacheFile),
                     path, file_digest(path, files, cacheFile))

\* C18: on a tree that is not modified, _compute_file_signatures gives
\* the same path-to-digest mapping in whatever order os.walk enumerates
\* the files, which is the mapping the analysis records; the digest of a
\* file is a function of its content alone: two user files of equal
\* content have equal digests, whatever else is in the tree.
C18_SignatureIndependentOfOrder ==
  LET paths == WalkedPaths(projectFiles, buildCacheFile)
      signatures == compute_file_signatures(projectFiles, buildCacheFile)
  IN  /\ \A o \in Enumerations(paths) :
           walk_signatures(o, projectFiles, buildCacheFile) = signatures
      /\ \A o \in Enumerations(paths) : \A q, r \in DOMAIN projectFiles :
           projectFiles[q] = projectFiles[r] =>
             walk_signatures(o, projectFiles, buildCacheFile)[q]
               = walk_signatures(o, projectFiles, buildCacheFile)[r]
      /\ \A o \in Enumerations(paths) : \A q \in DOMAIN projectFiles :
           walk_signatures(o, projectFiles, buildCacheFile)[q]
             = sha256_16(projectFiles[q])

\* C18 witness: an analysis hashed three files, two user files of
\* different content and build_cache.json, and the tree is as it was then.
C18_ThreeFilesHashedTwice ==
  /\ lastBuild # NoBuild
  /\ DOMAIN context.file_signatures = UserPaths \cup {CachePath}
  /\ context.file_signatures = compute_file_signatures(projectFiles, buildCacheFile)
  /\ \E q, r \in DOMAIN projectFiles : projectFiles[q] # projectFiles[r]

\* ------------------------------------------------------------------------
\* The order of get_build_order
\* ------------------------------------------------------------------------

\* The depth-first post-order as a function of the graph: visit the
\* nodes of a list from first to last; a node not seen before goes through
\* its dependency list and is listed after it.
RECURSIVE post_order_visit(_, _), post_order_list(_, _)
post_order_visit(node, st) ==
  IF node \in st.visited THEN st
  ELSE LET inner == post_order_list(DepsOf(node),
                                    [st EXCEPT !.visited = @ \cup {node}])
       IN  [inner EXCEPT !.result = Append(@, node)]

post_order_list(list, st) ==
  IF list = <<>> THEN st
  ELSE post_order_list(Tail(list), post_order_visit(Head(list), st))

PostOrder == post_order_list(graphKeys, [visited |-> {}, result |-> <<>>]).result

\* a key without dependencies that no key depends on
Isolated(node) ==
  /\ node \in DOMAIN graphDeps
  /\ graphDeps[node] = <<>>
  /\ \A m \in DOMAIN graphDeps : ~DependsOn(m, node)

\* C19: the list get_build_order returns is the depth-first post-order
\* from the graph's keys in insertion order, each dependency list followed
\* in its order; keys without dependencies that nobody depends on stand in
\* it in their insertion order.
C19_BuildOrderIsPostOrder ==
  rpc = "built" =>
    /\ result = PostOrder
    /\ \A i, j \in 1..Len(graphKeys) :
         (i < j /\ Isolated(graphKeys[i]) /\ Isolated(graphKeys[j])) =>
           IndexOf(result, graphKeys[i]) < IndexOf(result, graphKeys[j])

\* C19 witness: get_build_order returned for a graph of three keys whose
\* first two are isolated, C inserted first, and lists C before the
\* second.
C19_IsolatedKeysInInsertionOrder ==
  /\ rpc = "built"
  /\ Len(graphKeys) = 3
  /\ Isolated(graphKeys[1])
  /\ Isolated(graphKeys[2])
  /\ graphKeys[1] = "C"
  /\ Len(result) = 3
  /\ IndexOf(result, graphKeys[1]) < IndexOf(result, graphKeys[2])

\* ------------------------------------------------------------------------
\* The index and the payload files between the statements of a call
\* ------------------------------------------------------------------------

\* C20: between any two file accesses of set and invalidate, and so after
\* a stop at any of them, every key that has an entry in the index file
\* has its payload file; a payload file without an entry is the only
\* leftover there can be.
C20_IndexedKeysHavePayload ==
  \A k \in DOMAIN load_index(indexFile) : k \in DOMAIN cacheFiles

\* ------------------------------------------------------------------------
\* The value and the dependency list of a key, with stops inside set
\* ------------------------------------------------------------------------

\* The callers of this run store each value with one dependency list, so
\* that the value read back names the set call it came from: the string
\* with no dependency, the list with a dependency on b.
PairedValues == {v \in PyValues : v.type \in {"str", "list"}}

DependenciesOf(value) == IF value.type = "list" THEN <<"b">> ELSE <<>>

NextPaired ==
  \/ \E k \in universe, v \in PairedValues :
       set_load_index(k, v, DependenciesOf(v))
  \/ set_write_payload
  \/ set_save_index
  \/ \E torn \in BOOLEAN : crash(torn)
  \/ \E k \in universe : get(k)
  \/ \E d \in universe : invalidate_dependent(d)

\* the statement-level set with stops, every value stored with its own
\* dependency list
SpecPaired == InitCrash /\ [][NextPaired]_vars

\* C21: with no call running, stops inside set included, the value get(k)
\* returns and the dependency list the index records for k come from the
\* same set call: the list is the one that value was stored with.
C21_ValueAndDependenciesPaired ==
  pc = "idle" =>
    \A k \in universe :
      get_result(indexFile, cacheFiles, k) # PyNone =>
        \E v \in PairedValues :
          /\ get_result(indexFile, cacheFiles, k) = json_loads(json_dumps(v))
          /\ load_index(indexFile)[k].dependencies = DependenciesOf(v)

====
